---- MODULE Spec2Model ----
(***************************************************************************)
(* Model of rl/hyperoptimizer.py: the HyperOptimizer base class and its    *)
(* two subclasses, HyperoptHyperOptimizer (search driven by hyperopt's     *)
(* fmin) and BruteHyperOptimizer (grid or line search run in a             *)
(* multiprocessing pool).                                                  *)
(*                                                                         *)
(* One optimizer object is followed through its life: the caller builds    *)
(* the keyword arguments, calls the constructor and, if that returns,      *)
(* calls run() once.  Python dictionaries that the code aliases, copies or *)
(* mutates live in two heaps (specHeap for experiment-spec dictionaries,   *)
(* paramHeap for parameter dictionaries) so that a reference and a copy    *)
(* are different things.                                                   *)
(*                                                                         *)
(* debug is Python's __debug__: an assert statement is executed iff        *)
(* __debug__ is true (the default interpreter); python -O compiles assert  *)
(* statements out.  Spec is the default interpreter, SpecO is python -O.   *)
(***************************************************************************)
EXTENDS Integers, Sequences, FiniteSets, TLC

\* ------------------------------------------------------------------ bounds
\* largest max_evals a caller passes
MaxEvals == 2
\* size of the worker pool (rl.util.PARALLEL_PROCESS_NUM, machine dependent)
PARALLEL_PROCESS_NUM == 2

\* ------------------------------------------------------- heap object names
\* experiment-spec dictionaries
RAW == 0          \* the caller's experiment_spec
COMMON == 1       \* copy.deepcopy(raw_experiment_spec)
GRID0 == 10       \* GRID0 + e: e-th spec made by generate_experiment_spec_grid
\* parameter dictionaries
DP == 0           \* the caller's experiment_spec['param']
DP_COPY == 1      \* its deep copy inside COMMON
SPACE == 2        \* copy.copy(self.default_param)
SAMPLE0 == 20     \* SAMPLE0 + n: the param fmin passes to the n-th objective call
GRIDP0 == 40      \* GRIDP0 + e: the param of the e-th grid spec
NONE == -1        \* no object

VARIABLES
  debug,       \* __debug__ of the interpreter
  cls,         \* the class being constructed: "Hyperopt" or "Brute"
  kwargs,      \* the keyword arguments of the constructor call
  specHeap,    \* experiment-spec dictionaries by object name
  paramHeap,   \* parameter dictionaries by object name
  attrs,       \* names of the attributes set on self (keys of self.__dict__)
  self,        \* values of the attributes of self
  trials,      \* every Trial object constructed so far, in order
  pc,          \* where the caller is
  exc,         \* the exception that ended the constructor or run()
  calls,       \* the param object of every hyperopt_run_trial call, in order
  hp_trials,   \* hyperopt's Trials(): one result per completed evaluation
  queue,       \* pool: indices of trial_array not yet handed to a worker
  workers,     \* pool: the task each worker process is running (0: idle)
  results,     \* pool: per task "pending", "ok" or "raised"
  pool,        \* "none", "open" or "joined"
  experiment_data  \* what run() returned

vars == <<debug, cls, kwargs, specHeap, paramHeap, attrs, self, trials, pc, exc,
          calls, hp_trials, queue, workers, results, pool, experiment_data>>

\* ------------------------------------------------------------ Python values
NoExc == [type |-> "none", at |-> "none"]

\* a plain parameter value
Val(n) == [kind |-> "val", val |-> n, name |-> "", label |-> "", options |-> <<>>, args |-> 0]
\* hp.choice(label, options)
HpChoice(k, opts) ==
  [kind |-> "choice", val |-> 0, name |-> "choice", label |-> k, options |-> opts, args |-> 0]
\* getattr(hp, name)(label, **args)
HpDist(name, k, a) ==
  [kind |-> "dist", val |-> 0, name |-> name, label |-> k, options |-> <<>>, args |-> a]

\* the attributes of the module hyperopt.hp that build parameter expressions
HpAttrs == {"choice", "pchoice", "randint", "uniform", "quniform", "loguniform",
            "qloguniform", "normal", "qnormal", "lognormal", "qlognormal"}

\* values of experiment_spec['param_range'][k]
\*   type: the Python type; list: the items of a list;
\*   keys: the keys of a dict, in order; space_v: the value under its first key
\*   (mapping: whether it is a dict, id: which arguments it holds)
NoArgs == [mapping |-> FALSE, id |-> 0]
RList(l) == [type |-> "list", list |-> l, keys |-> <<>>, space_v |-> NoArgs]
RDict(ks, m, a) == [type |-> "dict", list |-> <<>>, keys |-> ks,
                    space_v |-> [mapping |-> m, id |-> a]]
RInt == [type |-> "int", list |-> <<>>, keys |-> <<>>, space_v |-> NoArgs]

\* ----------------------------------------------------- the object under way
\* The part of the state a method body changes, threaded through its statements:
\* once exc is set the remaining statements are skipped.
Raised(st) == st.exc # NoExc
raise(st, type, at) == [st EXCEPT !.exc = [type |-> type, at |-> at]]
Put(h, id, v) == (id :> v) @@ h

\* setattr(self, name, value)
setattr(st, name, value) ==
  [st EXCEPT !.attrs = @ \cup {name}, !.self = [@ EXCEPT ![name] = value]]

\* self.<name> read: AttributeError when the attribute was never set
HasAttr(st, name) == name \in st.attrs

\* d.pop(key) on an experiment-spec dictionary
dict_pop(d, key) ==
  IF key = "param" THEN [d EXCEPT !.keys = @ \ {key}, !.param = NONE]
  ELSE IF key = "param_range" THEN [d EXCEPT !.keys = @ \ {key}, !.param_range = <<>>]
  ELSE [d EXCEPT !.keys = @ \ {key}]

\* copy.deepcopy(spec): a new spec dictionary dst and, inside it, a new param
\* dictionary dstParam; nothing is shared with the original
deepcopy(sh, ph, src, dst, dstParam) ==
  LET d == sh[src]
      hasP == "param" \in d.keys
  IN [specHeap |-> Put(sh, dst, [d EXCEPT !.param = IF hasP THEN dstParam ELSE NONE]),
      paramHeap |-> IF hasP THEN Put(ph, dstParam, ph[d.param]) ELSE ph,
      id |-> dst]

\* mutant: an assignment instead of a copy
copy_alias(ph, src, dst) == [paramHeap |-> ph, id |-> src]

\* copy.copy(param dict): a new dictionary dst with the same keys and values
copy_copy(ph, src, dst) == [paramHeap |-> Put(ph, dst, ph[src]), id |-> dst]

\* ------------------------------------------------ HyperOptimizer (base class)
KwNames == {"experiment_spec", "times", "max_evals", "line_search",
            "experiment_id_override"}

SetKw(st, kw, k) == IF k \in kw.keys THEN setattr(st, k, kw[k]) ELSE st

\* mutant: the required keys are not checked
check_set_keys_unchecked(st, kw) ==
  SetKw(SetKw(SetKw(SetKw(SetKw(st, kw, "experiment_spec"), kw, "times"),
                    kw, "max_evals"), kw, "line_search"),
        kw, "experiment_id_override")

\* lines 22-25
HyperOptimizer_check_set_keys(st, kw) ==
  IF debug /\ ~(\A k \in st.self.REQUIRED_GLOBAL_VARS : k \in kw.keys)
  THEN raise(st, "AssertionError", "check_set_keys")
  ELSE SetKw(SetKw(SetKw(SetKw(SetKw(st, kw, "experiment_spec"), kw, "times"),
                         kw, "max_evals"), kw, "line_search"),
             kw, "experiment_id_override")

\* ------------------------------------------------------ HyperoptHyperOptimizer
HyperoptRequired == {"experiment_spec", "times", "max_evals"}

\* kwargs.pop('experiment_spec') at line 42 removes the key from the
\* dictionary that line 53 passes on
kwargs_pop(kw, key) == [kw EXCEPT !.keys = @ \ {key}]

\* lines 36-53
Hyperopt_check_set_keys(st0, kw) ==
  LET st == setattr(st0, "REQUIRED_GLOBAL_VARS", HyperoptRequired)
  IN
  IF "experiment_spec" \notin kw.keys
  THEN raise(st, "KeyError", "check_set_keys")
  ELSE
  LET raw == kw.experiment_spec
      popped == kwargs_pop(kw, "experiment_spec")
      rawd == st.specHeap[raw]
  IN
  IF debug /\ "param" \notin rawd.keys
  THEN raise(st, "AssertionError", "check_set_keys")
  ELSE IF debug /\ "param_range" \notin rawd.keys
  THEN raise(st, "AssertionError", "check_set_keys")
  ELSE
  LET c == deepcopy(st.specHeap, st.paramHeap, raw, COMMON, DP_COPY)
      st1 == setattr([st EXCEPT !.specHeap = c.specHeap, !.paramHeap = c.paramHeap],
                     "common_experiment_spec", c.id)
      cd == st1.specHeap[c.id]
  IN
  IF "param" \notin cd.keys
  THEN raise(st1, "KeyError", "check_set_keys")
  ELSE
  LET st2 == [st1 EXCEPT !.specHeap = Put(@, c.id, dict_pop(cd, "param"))]
      cd2 == st2.specHeap[c.id]
  IN
  IF "param_range" \notin cd2.keys
  THEN raise(st2, "KeyError", "check_set_keys")
  ELSE
  LET st3 == [st2 EXCEPT !.specHeap = Put(@, c.id, dict_pop(cd2, "param_range"))]
      \* raw_experiment_spec['param'], raw_experiment_spec['param_range']: after
      \* the pops of an aliased dictionary these subscripts raise KeyError
      rawd3 == st3.specHeap[raw]
  IN
  IF "param" \notin rawd3.keys \/ "param_range" \notin rawd3.keys
  THEN raise(st3, "KeyError", "check_set_keys")
  ELSE
  LET st4 == setattr(setattr(setattr(setattr(st3,
                 "default_param", rawd3.param),
                 "param_range", rawd3.param_range),
                 "trial_num", 0),
                 "algo", "tpe.suggest")
  IN HyperOptimizer_check_set_keys(st4, popped)

\* mutant: the assertion only asks for a non-empty dictionary
convert_to_hp_lax(k, v) ==
  IF v.type = "list"
  THEN [exc |-> "none", space |-> HpChoice(k, v.list)]
  ELSE IF v.type = "dict"
  THEN IF debug /\ Len(v.keys) < 1
       THEN [exc |-> "AssertionError", space |-> Val(0)]
       ELSE IF Len(v.keys) = 0
       THEN [exc |-> "IndexError", space |-> Val(0)]
       ELSE IF v.keys[1] \notin HpAttrs
       THEN [exc |-> "AttributeError", space |-> Val(0)]
       ELSE IF ~v.space_v.mapping
       THEN [exc |-> "TypeError", space |-> Val(0)]
       ELSE [exc |-> "none", space |-> HpDist(v.keys[1], k, v.space_v.id)]
  ELSE [exc |-> "TypeError", space |-> Val(0)]

\* lines 55-83: [exc |-> exception type or "none", space |-> the expression]
convert_to_hp(k, v) ==
  IF v.type = "list"
  THEN [exc |-> "none", space |-> HpChoice(k, v.list)]
  ELSE IF v.type = "dict"
  THEN IF debug /\ Len(v.keys) # 1
       THEN [exc |-> "AssertionError", space |-> Val(0)]
       ELSE IF Len(v.keys) = 0
       THEN [exc |-> "IndexError", space |-> Val(0)]
       ELSE IF v.keys[1] \notin HpAttrs
       THEN [exc |-> "AttributeError", space |-> Val(0)]
       ELSE IF ~v.space_v.mapping
       THEN [exc |-> "TypeError", space |-> Val(0)]
       ELSE [exc |-> "none", space |-> HpDist(v.keys[1], k, v.space_v.id)]
  ELSE [exc |-> "TypeError", space |-> Val(0)]

\* lines 88-91: the loop over self.param_range, from its i-th key on
RECURSIVE param_space_loop(_, _)
param_space_loop(st, i) ==
  IF i > Len(st.self.param_range) THEN st
  ELSE LET k == st.self.param_range[i].k
           v == st.self.param_range[i].v
           r == convert_to_hp(k, v)
           ps == st.self.param_space.dict
       IN IF r.exc # "none"
          THEN raise(st, r.exc, "convert_to_hp")
          ELSE param_space_loop(
                 [st EXCEPT !.paramHeap = Put(@, ps, (k :> r.space) @@ st.paramHeap[ps])],
                 i + 1)

\* lines 86-92
Hyperopt_generate_param_space(st) ==
  LET c == copy_copy(st.paramHeap, st.self.default_param, SPACE)
      st1 == setattr([st EXCEPT !.paramHeap = c.paramHeap], "param_space",
                     [kind |-> "dict", dict |-> c.id, list |-> <<>>])
  IN param_space_loop(st1, 1)

\* --------------------------------------------------------- BruteHyperOptimizer
BruteRequired == {"experiment_spec", "times", "line_search"}

\* lines 138-144
Brute_check_set_keys(st0, kw) ==
  HyperOptimizer_check_set_keys(setattr(st0, "REQUIRED_GLOBAL_VARS", BruteRequired), kw)

\* rl.util.param_product: every combination of the values of param_range,
\* each written over the default param
RECURSIVE param_product_from(_, _, _)
param_product_from(d, range, i) ==
  IF i > Len(range) THEN <<d>>
  ELSE LET k == range[i].k
           l == range[i].v.list
           F[j \in 0..Len(l)] ==
             IF j = 0 THEN <<>>
             ELSE F[j - 1] \o param_product_from((k :> Val(l[j])) @@ d, range, i + 1)
       IN F[Len(l)]

param_product(sh, ph, spec) == param_product_from(ph[sh[spec].param], sh[spec].param_range, 1)

\* rl.util.param_line_search: one parameter varied at a time, the others at
\* their default
RECURSIVE param_line_search_from(_, _, _)
param_line_search_from(d, range, i) ==
  IF i > Len(range) THEN <<>>
  ELSE LET k == range[i].k
           l == range[i].v.list
       IN [j \in 1..Len(l) |-> (k :> Val(l[j])) @@ d]
          \o param_line_search_from(d, range, i + 1)

param_line_search(sh, ph, spec) ==
  param_line_search_from(ph[sh[spec].param], sh[spec].param_range, 1)

\* rl.util.generate_experiment_spec_grid: one new experiment spec per param of
\* the grid, the e-th (from 0) named GRID0 + e with its param named GRIDP0 + e
generate_experiment_spec_grid(st, spec, param_grid) ==
  LET n == Len(param_grid)
      E == 0..(n - 1)
  IN [st EXCEPT
        !.specHeap = [id \in {GRID0 + e : e \in E} |->
                        [keys |-> {"problem", "param"}, param |-> GRIDP0 + (id - GRID0),
                         param_range |-> <<>>]] @@ @,
        !.paramHeap = [id \in {GRIDP0 + e : e \in E} |-> param_grid[id - GRIDP0 + 1]] @@ @]

\* self.Trial(experiment_spec, times=, trial_num=, num_of_trials=, run_timestamp=...)
\* runs counts the calls of its run(), raised tells whether one of them raised
NewTrial(spec, times, trial_num, num_of_trials) ==
  [experiment_spec |-> spec, times |-> times, trial_num |-> trial_num,
   num_of_trials |-> num_of_trials, runs |-> 0, raised |-> FALSE]

\* lines 157-164: the loop that builds trial_array, from e on
RECURSIVE trial_array_loop(_, _)
trial_array_loop(st, e) ==
  IF e >= st.self.num_of_trials THEN st
  ELSE IF ~HasAttr(st, "times") \/ ~HasAttr(st, "experiment_id_override")
  THEN raise(st, "AttributeError", "generate_param_space")
  ELSE LET experiment_spec == st.self.param_space.list[e + 1]
           trial == NewTrial(experiment_spec, st.self.times, e, st.self.num_of_trials)
           st1 == [st EXCEPT !.trials = Append(@, trial)]
       IN trial_array_loop(
            [st1 EXCEPT !.self.trial_array = Append(@, Len(st1.trials))], e + 1)

\* mutant: the loop that builds trial_array starts at 1
Brute_generate_param_space_from1(st) ==
  IF ~HasAttr(st, "line_search") \/ ~HasAttr(st, "experiment_spec")
  THEN raise(st, "AttributeError", "generate_param_space")
  ELSE
  LET spec == st.self.experiment_spec
      param_grid == IF st.self.line_search
                    THEN param_line_search(st.specHeap, st.paramHeap, spec)
                    ELSE param_product(st.specHeap, st.paramHeap, spec)
      st1 == generate_experiment_spec_grid(st, spec, param_grid)
      st2 == setattr(st1, "param_space",
                     [kind |-> "list", dict |-> NONE,
                      list |-> [e \in 1..Len(param_grid) |-> GRID0 + (e - 1)]])
      st3 == setattr(st2, "num_of_trials", Len(st2.self.param_space.list))
      st4 == setattr(st3, "trial_array", <<>>)
  IN trial_array_loop(st4, 1)

\* lines 147-166
Brute_generate_param_space(st) ==
  IF ~HasAttr(st, "line_search") \/ ~HasAttr(st, "experiment_spec")
  THEN raise(st, "AttributeError", "generate_param_space")
  ELSE
  LET spec == st.self.experiment_spec
      param_grid == IF st.self.line_search
                    THEN param_line_search(st.specHeap, st.paramHeap, spec)
                    ELSE param_product(st.specHeap, st.paramHeap, spec)
      st1 == generate_experiment_spec_grid(st, spec, param_grid)
      st2 == setattr(st1, "param_space",
                     [kind |-> "list", dict |-> NONE,
                      list |-> [e \in 1..Len(param_grid) |-> GRID0 + (e - 1)]])
      st3 == setattr(st2, "num_of_trials", Len(st2.self.param_space.list))
      st4 == setattr(st3, "trial_array", <<>>)
  IN trial_array_loop(st4, 0)

\* ------------------------------------------------------------- the constructor
check_set_keys(st, kw) ==
  IF cls = "Hyperopt" THEN Hyperopt_check_set_keys(st, kw) ELSE Brute_check_set_keys(st, kw)

generate_param_space(st) ==
  IF cls = "Hyperopt" THEN Hyperopt_generate_param_space(st)
  ELSE Brute_generate_param_space(st)

\* lines 12-20
HyperOptimizer_init(st0, kw) ==
  LET st1 == setattr(st0, "REQUIRED_GLOBAL_VARS", {"experiment_spec", "times"})
      st2 == check_set_keys(st1, kw)
  IN IF Raised(st2) THEN st2
     ELSE generate_param_space(setattr(setattr(st2, "run_timestamp", 1), "Trial", "Trial"))

\* ------------------------------------------------------------------ the inputs
Classes == {"Hyperopt", "Brute"}

\* the keyword arguments a caller may pass: any subset of the known names
KwargsSet ==
  { [keys |-> ks, experiment_spec |-> RAW, times |-> 1, max_evals |-> m,
     line_search |-> ls, experiment_id_override |-> 0] :
       ks \in SUBSET KwNames, m \in 1..MaxEvals, ls \in BOOLEAN }

\* a value is only chosen for a key that is passed
Canonical(kw) ==
  /\ "max_evals" \notin kw.keys => kw.max_evals = 1
  /\ "line_search" \notin kw.keys => kw.line_search = FALSE

DefaultParam == ("lr" :> Val(1)) @@ ("gamma" :> Val(9))

RangeValues ==
  { RList(<<2, 3>>), RList(<<>>), RInt,
    RDict(<<"uniform">>, TRUE, 1), RDict(<<"bogus">>, TRUE, 1),
    RDict(<<"uniform">>, FALSE, 0), RDict(<<>>, FALSE, 0),
    RDict(<<"uniform", "normal">>, TRUE, 1) }

R1(k, v) == << [k |-> k, v |-> v] >>

\* param_range dictionaries for the hyperopt search
HyperoptRanges ==
  {<<>>} \cup { R1("lr", v) : v \in RangeValues }
         \cup { R1("lr", RList(<<2, 3>>)) \o R1("act", v) : v \in RangeValues }

\* param_range dictionaries for the grid search: every value is a list
BruteRanges ==
  { <<>>, R1("lr", RList(<<2, 3>>)), R1("lr", RList(<<>>)), R1("lr", RList(<<2>>)),
    R1("lr", RList(<<2, 3>>)) \o R1("act", RList(<<6, 7>>)) }

\* an experiment_spec: keys present, default param, param_range
ESpec(ks, r) ==
  [keys |-> ks \cup {"problem"},
   param |-> IF "param" \in ks THEN DefaultParam ELSE <<>>,
   param_range |-> IF "param_range" \in ks THEN r ELSE <<>>]

HyperoptSpecs ==
  { ESpec({"param", "param_range"}, r) : r \in HyperoptRanges }
  \cup { ESpec({"param"}, <<>>), ESpec({"param_range"}, R1("lr", RList(<<2, 3>>))),
         ESpec({}, <<>>) }

BruteSpecs == { ESpec({"param", "param_range"}, r) : r \in BruteRanges }

SpecsOf(c) == IF c = "Hyperopt" THEN HyperoptSpecs ELSE BruteSpecs

\* what trial.run() can do: return its trial_data, whose SOLVED_MEAN_REWARD is
\* solved, or raise
TrialOutcomes == { [ok |-> TRUE, solved |-> 2], [ok |-> TRUE, solved |-> 0],
                   [ok |-> FALSE, solved |-> 0] }

\* ------------------------------------------------------------------------ Init
SelfInit ==
  [REQUIRED_GLOBAL_VARS |-> {}, experiment_spec |-> NONE, times |-> 0, max_evals |-> 0,
   line_search |-> FALSE, experiment_id_override |-> 0, common_experiment_spec |-> NONE,
   default_param |-> NONE, param_range |-> <<>>, trial_num |-> 0, algo |-> "",
   run_timestamp |-> 0, Trial |-> "", param_space |-> [kind |-> "none", dict |-> NONE, list |-> <<>>],
   num_of_trials |-> 0, trial_array |-> <<>>]

\* the caller's objects, before the constructor is called
InitWith(d, c, kw, s) ==
  /\ debug = d
  /\ cls = c
  /\ kwargs = kw
  /\ specHeap = (RAW :> [keys |-> s.keys,
                         param |-> IF "param" \in s.keys THEN DP ELSE NONE,
                         param_range |-> s.param_range])
  /\ paramHeap = IF "param" \in s.keys THEN (DP :> s.param) ELSE <<>>
  /\ attrs = {}
  /\ self = SelfInit
  /\ trials = <<>>
  /\ pc = "start"
  /\ exc = NoExc
  /\ calls = <<>>
  /\ hp_trials = <<>>
  /\ queue = <<>>
  /\ workers = <<>>
  /\ results = <<>>
  /\ pool = "none"
  /\ experiment_data = <<>>

Inputs(d) ==
  \E c \in Classes, kw \in KwargsSet :
    /\ Canonical(kw)
    /\ \E s \in SpecsOf(c) :
         /\ ("experiment_spec" \notin kw.keys => s = ESpec({}, <<>>))
         /\ InitWith(d, c, kw, s)

Init == Inputs(TRUE)

InitO == Inputs(FALSE)

\* --------------------------------------------------------------------- actions
Cur == [attrs |-> attrs, self |-> self, specHeap |-> specHeap, paramHeap |-> paramHeap,
        trials |-> trials, exc |-> exc]

Store(st) ==
  /\ attrs' = st.attrs
  /\ self' = st.self
  /\ specHeap' = st.specHeap
  /\ paramHeap' = st.paramHeap
  /\ trials' = st.trials
  /\ exc' = st.exc

\* HyperoptHyperOptimizer(Trial, **kwargs) or BruteHyperOptimizer(Trial, **kwargs)
Construct ==
  /\ pc = "start"
  /\ LET st == HyperOptimizer_init(Cur, kwargs)
     IN /\ Store(st)
        /\ pc' = IF Raised(st) THEN "init_raised" ELSE "constructed"
  /\ UNCHANGED <<debug, cls, kwargs, calls, hp_trials, queue, workers, results, pool,
                 experiment_data>>

\* ---------------------------------------------------- BruteHyperOptimizer.run
\* what trial.run() of trial t returns: its mean reward per episode and the
\* SOLVED_MEAN_REWARD of its first session
TrialData(t, o) == [trial |-> t, mean |-> 3, solved |-> o.solved]

\* lines 172-174: the pool is created and p.map hands it trial_array; the
\* caller then waits inside p.map
BruteRunCall ==
  /\ pc = "constructed"
  /\ cls = "Brute"
  /\ pool' = "open"
  /\ queue' = [i \in 1..Len(self.trial_array) |-> i]
  /\ results' = [i \in 1..Len(self.trial_array) |-> [status |-> "pending", data |-> TrialData(0, [solved |-> 0])]]
  /\ workers' = [w \in 1..PARALLEL_PROCESS_NUM |-> 0]
  /\ pc' = "map"
  /\ UNCHANGED <<debug, cls, kwargs, specHeap, paramHeap, attrs, self, trials, exc,
                 calls, hp_trials, experiment_data>>

\* mp_run_helper, line 169, first half: an idle worker process takes the next
\* task and calls trial.run()
mp_run_helper_call(ts, t) == [ts EXCEPT ![t].runs = @ + 1]

WorkerTake ==
  /\ pool = "open"
  /\ queue # <<>>
  /\ \E w \in DOMAIN workers :
       /\ workers[w] = 0
       /\ workers' = [workers EXCEPT ![w] = Head(queue)]
       /\ trials' = mp_run_helper_call(trials, self.trial_array[Head(queue)])
  /\ queue' = Tail(queue)
  /\ UNCHANGED <<debug, cls, kwargs, specHeap, paramHeap, attrs, self, pc, exc,
                 calls, hp_trials, results, pool, experiment_data>>

\* the outcome of trial.run() in a worker, as the pool records it
mp_run_helper_return(r, t, o) ==
  IF o.ok THEN [status |-> "ok", data |-> TrialData(t, o)]
  ELSE [r EXCEPT !.status = "raised"]

\* mp_run_helper, line 169, second half: trial.run() returns or raises in the
\* worker, which hands the outcome back to the pool
WorkerFinish ==
  /\ pool = "open"
  /\ \E w \in DOMAIN workers, o \in TrialOutcomes :
       /\ workers[w] # 0
       /\ results' = [results EXCEPT ![workers[w]] =
                        mp_run_helper_return(@, self.trial_array[workers[w]], o)]
       /\ trials' = [trials EXCEPT ![self.trial_array[workers[w]]].raised = ~o.ok]
       /\ workers' = [workers EXCEPT ![w] = 0]
  /\ UNCHANGED <<debug, cls, kwargs, specHeap, paramHeap, attrs, self, pc, exc,
                 calls, hp_trials, queue, pool, experiment_data>>

\* the list p.map returns: the results in the order of trial_array
map_result(rs) == [i \in 1..Len(rs) |-> rs[i].data]

\* mutant: the results are collected without waiting for the tasks
BruteRunReturn_nowait ==
  /\ pc = "map"
  /\ experiment_data' = map_result(results)
  /\ pool' = "joined"
  /\ pc' = "returned"
  /\ UNCHANGED <<debug, cls, kwargs, specHeap, paramHeap, attrs, self, trials, exc,
                 calls, hp_trials, queue, workers, results>>

\* mutant: the results of the trials that succeeded are returned
BruteRunReturn_partial ==
  /\ pc = "map"
  /\ \A i \in DOMAIN results : results[i].status # "pending"
  /\ experiment_data' = map_result(results)
  /\ pool' = "joined"
  /\ pc' = "returned"
  /\ UNCHANGED <<debug, cls, kwargs, specHeap, paramHeap, attrs, self, trials, exc,
                 calls, hp_trials, queue, workers, results>>

\* lines 173-177: p.map returns once every task has succeeded, then the pool is
\* closed and joined and the list is returned
BruteRunReturn ==
  /\ pc = "map"
  /\ \A i \in DOMAIN results : results[i].status = "ok"
  /\ experiment_data' = map_result(results)
  /\ pool' = "joined"
  /\ pc' = "returned"
  /\ UNCHANGED <<debug, cls, kwargs, specHeap, paramHeap, attrs, self, trials, exc,
                 calls, hp_trials, queue, workers, results>>

\* line 174: p.map re-raises the exception of a failed task (at once or after
\* the other tasks have finished, depending on the version of multiprocessing);
\* lines 175-177 are skipped
BruteRunRaise ==
  /\ pc = "map"
  /\ \E i \in DOMAIN results : results[i].status = "raised"
  /\ exc' = [type |-> "TrialError", at |-> "run"]
  /\ pc' = "run_raised"
  /\ UNCHANGED <<debug, cls, kwargs, specHeap, paramHeap, attrs, self, trials,
                 calls, hp_trials, queue, workers, results, pool, experiment_data>>

\* ------------------------------------------------- HyperoptHyperOptimizer.run
\* mutant: trial_num is not incremented
get_next_var_noincr(st) == st

\* lines 94-99: get_next_var increments trial_num and returns self.__dict__
get_next_var(st) == [st EXCEPT !.self.trial_num = @ + 1]

\* experiment_spec.update({'param': param})
dict_update_param(d, param) == [d EXCEPT !.keys = @ \cup {"param"}, !.param = param]

\* lines 101-122: [st |-> the state after the call, ok |-> whether it returned,
\* ret |-> the dictionary it returned]
hyperopt_run_trial(st0, param, o) ==
  LET gv == get_next_var(st0)
      experiment_spec == gv.self.common_experiment_spec
      st1 == [gv EXCEPT !.specHeap =
                Put(@, experiment_spec, dict_update_param(@[experiment_spec], param))]
      NoRet == [loss |-> [num |-> 0, den |-> 1], status |-> "none",
                trial_data |-> TrialData(0, o)]
  IN
  IF ~HasAttr(st1, "times") \/ ~HasAttr(st1, "max_evals")
  THEN [st |-> raise(st1, "KeyError", "hyperopt_run_trial"), ok |-> FALSE, ret |-> NoRet]
  ELSE
  LET trial == NewTrial(experiment_spec, st1.self.times, st1.self.trial_num,
                        st1.self.max_evals)
      t == Len(st1.trials) + 1
      \* trial.run()
      st2 == [st1 EXCEPT !.trials =
                Append(@, [trial EXCEPT !.runs = @ + 1, !.raised = ~o.ok])]
      trial_data == TrialData(t, o)
  IN
  IF ~o.ok
  THEN [st |-> raise(st2, "TrialError", "hyperopt_run_trial"), ok |-> FALSE, ret |-> NoRet]
  ELSE IF trial_data.solved = 0
  THEN [st |-> raise(st2, "ZeroDivisionError", "hyperopt_run_trial"), ok |-> FALSE,
        ret |-> NoRet]
  ELSE [st |-> st2, ok |-> TRUE,
        ret |-> [loss |-> [num |-> -trial_data.mean, den |-> trial_data.solved],
                 status |-> "ok",
                 trial_data |-> trial_data]]

\* the values fmin may draw for one entry of the search space
Draws(x) ==
  IF x.kind = "val" THEN {x}
  ELSE IF x.kind = "choice" THEN { Val(x.options[i]) : i \in DOMAIN x.options }
  ELSE { Val(7), Val(8) }

\* the params fmin may pass to the objective
Samples(space) == { p \in [DOMAIN space -> UNION { Draws(space[k]) : k \in DOMAIN space }] :
                      \A k \in DOMAIN space : p[k] \in Draws(space[k]) }

\* lines 125-130: trials = Trials() and the call of fmin, whose arguments are
\* read from self
HyperoptRunCall ==
  /\ pc = "constructed"
  /\ cls = "Hyperopt"
  /\ IF "max_evals" \in attrs
     THEN /\ pc' = "fmin"
          /\ exc' = exc
     ELSE /\ pc' = "run_raised"
          /\ exc' = [type |-> "AttributeError", at |-> "run"]
  /\ hp_trials' = <<>>
  /\ UNCHANGED <<debug, cls, kwargs, specHeap, paramHeap, attrs, self, trials,
                 calls, queue, workers, results, pool, experiment_data>>

\* fmin evaluates the objective once more: it draws a param from the space
\* and calls hyperopt_run_trial; an exception of the objective, or of the
\* draw, leaves fmin and run()
FminEvaluate ==
  /\ pc = "fmin"
  /\ Len(hp_trials) < self.max_evals
  /\ LET space == paramHeap[self.param_space.dict]
         n == Len(calls) + 1
     IN IF Samples(space) = {}
        THEN /\ pc' = "run_raised"
             /\ exc' = [type |-> "ValueError", at |-> "fmin"]
             /\ UNCHANGED <<specHeap, paramHeap, attrs, self, trials, calls, hp_trials>>
        ELSE \E p \in Samples(space), o \in TrialOutcomes :
               LET r == hyperopt_run_trial(
                          [Cur EXCEPT !.paramHeap = Put(@, SAMPLE0 + n, p)], SAMPLE0 + n, o)
               IN /\ Store(r.st)
                  /\ calls' = Append(calls, SAMPLE0 + n)
                  /\ hp_trials' = IF r.ok THEN Append(hp_trials, [result |-> r.ret])
                                  ELSE hp_trials
                  /\ pc' = IF r.ok THEN "fmin" ELSE "run_raised"
  /\ UNCHANGED <<debug, cls, kwargs, queue, workers, results, pool, experiment_data>>

\* lines 131-133: fmin has returned after max_evals evaluations
HyperoptRunReturn ==
  /\ pc = "fmin"
  /\ Len(hp_trials) = self.max_evals
  /\ experiment_data' = [i \in 1..Len(hp_trials) |-> hp_trials[i].result.trial_data]
  /\ pc' = "returned"
  /\ UNCHANGED <<debug, cls, kwargs, specHeap, paramHeap, attrs, self, trials, exc,
                 calls, hp_trials, queue, workers, results, pool>>

\* ------------------------------------------------------------- specifications
\* the default interpreter: no HyperoptHyperOptimizer is ever constructed, so
\* its run() has no action here
Next == Construct \/ BruteRunCall \/ WorkerTake \/ WorkerFinish \/ BruteRunReturn
        \/ BruteRunRaise

Spec == Init /\ [][Next]_vars

\* python -O
NextO == Construct \/ BruteRunCall \/ WorkerTake \/ WorkerFinish \/ BruteRunReturn
         \/ BruteRunRaise \/ HyperoptRunCall \/ FminEvaluate \/ HyperoptRunReturn

SpecO == InitO /\ [][NextO]_vars

\* generate_param_space and convert_to_hp as functions of self.default_param
\* and self.param_range: the object is as lines 45-51 leave it, for any
\* param_range of up to two keys, and generate_param_space is applied to it
GenKeys == {"lr", "act"}

GenRanges ==
  {<<>>} \cup { R1(k, v) : k \in GenKeys, v \in RangeValues }
         \cup UNION { { R1(k1, v1) \o R1(k2, v2) :
                         k2 \in GenKeys \ {k1}, v1 \in RangeValues, v2 \in RangeValues } :
                       k1 \in GenKeys }

InitGen ==
  \E r \in GenRanges :
    LET s == ESpec({"param", "param_range"}, r)
        kw == [keys |-> HyperoptRequired, experiment_spec |-> RAW, times |-> 1,
               max_evals |-> 1, line_search |-> FALSE, experiment_id_override |-> 0]
    IN /\ debug = TRUE
       /\ cls = "Hyperopt"
       /\ kwargs = kw
       /\ specHeap = (COMMON :> [keys |-> {"problem"}, param |-> NONE, param_range |-> <<>>])
                     @@ (RAW :> [keys |-> s.keys, param |-> DP, param_range |-> r])
       /\ paramHeap = (DP :> s.param) @@ (DP_COPY :> s.param)
       /\ attrs = {"REQUIRED_GLOBAL_VARS", "common_experiment_spec", "default_param",
                   "param_range", "trial_num", "algo"}
       /\ self = [SelfInit EXCEPT !.REQUIRED_GLOBAL_VARS = HyperoptRequired,
                                  !.common_experiment_spec = COMMON,
                                  !.default_param = DP, !.param_range = r,
                                  !.algo = "tpe.suggest"]
       /\ trials = <<>>
       /\ pc = "gen"
       /\ exc = NoExc
       /\ calls = <<>>
       /\ hp_trials = <<>>
       /\ queue = <<>>
       /\ workers = <<>>
       /\ results = <<>>
       /\ pool = "none"
       /\ experiment_data = <<>>

\* self.generate_param_space()
GenerateParamSpace ==
  /\ pc = "gen"
  /\ LET st == Hyperopt_generate_param_space(Cur)
     IN /\ Store(st)
        /\ pc' = IF Raised(st) THEN "gen_raised" ELSE "gen_done"
  /\ UNCHANGED <<debug, cls, kwargs, calls, hp_trials, queue, workers, results, pool,
                 experiment_data>>

NextGen == GenerateParamSpace

SpecGen == InitGen /\ [][NextGen]_vars

\* ---------------------------------------------------------------- properties
Constructed == pc \in {"constructed", "map", "fmin", "returned", "run_raised"}
RequiredOf(c) == IF c = "Hyperopt" THEN HyperoptRequired ELSE BruteRequired
RawKeys == specHeap[RAW].keys

\* C1 (Spec): when the keyword arguments lack a key of the class's
\* REQUIRED_GLOBAL_VARS, or the experiment_spec given to a
\* HyperoptHyperOptimizer lacks 'param' or 'param_range', the constructor
\* raises in check_set_keys: generate_param_space is not reached, no Trial is
\* constructed and there is no param_space.
C1_LacksRequired ==
  \/ ~(RequiredOf(cls) \subseteq kwargs.keys)
  \/ /\ cls = "Hyperopt"
     /\ "experiment_spec" \in kwargs.keys
     /\ ~({"param", "param_range"} \subseteq RawKeys)

C1_MissingKeyRaises ==
  (pc # "start" /\ C1_LacksRequired) =>
     /\ pc = "init_raised"
     /\ exc.at = "check_set_keys"
     /\ trials = <<>>
     /\ "param_space" \notin attrs

C1_Witness ==
  /\ pc = "init_raised"
  /\ cls = "Brute"
  /\ kwargs.keys = {"experiment_spec", "times", "experiment_id_override"}
  /\ exc = [type |-> "AssertionError", at |-> "check_set_keys"]

\* C2 (Spec): a HyperoptHyperOptimizer given experiment_spec (with 'param' and
\* 'param_range'), times and max_evals passes check_set_keys: times and
\* max_evals become attributes, trial_num is 0 and generate_param_space is
\* reached.
C2_CompleteKwargsPass ==
  ( /\ pc # "start"
    /\ cls = "Hyperopt"
    /\ HyperoptRequired \subseteq kwargs.keys
    /\ {"param", "param_range"} \subseteq RawKeys ) =>
     /\ exc.at # "check_set_keys"
     /\ {"times", "max_evals", "param_space"} \subseteq attrs
     /\ self.trial_num = 0

\* C3 (Spec): in a constructed BruteHyperOptimizer trial_array, param_space and
\* num_of_trials have the same length, and the i-th trial (from 0) was built
\* from param_space[i] with trial_num i and num_of_trials len(param_space).
C3_OneTrialPerConfiguration ==
  (Constructed /\ cls = "Brute") =>
     /\ Len(self.trial_array) = self.num_of_trials
     /\ Len(self.param_space.list) = self.num_of_trials
     /\ \A i \in 1..self.num_of_trials :
          LET trial == trials[self.trial_array[i]]
          IN /\ trial.experiment_spec = self.param_space.list[i]
             /\ trial.trial_num = i - 1
             /\ trial.num_of_trials = Len(self.param_space.list)
     /\ \A i, j \in 1..self.num_of_trials :
          i # j => /\ self.trial_array[i] # self.trial_array[j]
                   /\ self.param_space.list[i] # self.param_space.list[j]
     /\ { trials[self.trial_array[i]].trial_num : i \in 1..Len(self.trial_array) }
          = 0..(self.num_of_trials - 1)

C3_Witness ==
  /\ pc = "constructed"
  /\ cls = "Brute"
  /\ self.line_search
  /\ self.num_of_trials = 4

\* C4 (SpecGen), as amended: convert_to_hp(k, v) returns a choice expression
\* over v labelled k when v is a list, and the expression named d, labelled k,
\* with the arguments v[d] when v is a dictionary with the single key d, d is
\* an attribute of hp and v[d] is a dictionary; it fails the assertion when v
\* is a dictionary with no key or several, raises AttributeError when d is no
\* attribute of hp, and TypeError when v[d] is no dictionary or v is neither a
\* list nor a dictionary.  generate_param_space completes iff every value of
\* param_range yields an expression; otherwise it ends with the exception of
\* the first value that does not, which gets no expression.
C4_Outcome(k, v) ==
  IF v.type = "list" THEN [exc |-> "none", space |-> HpChoice(k, v.list)]
  ELSE IF v.type = "dict" /\ Len(v.keys) # 1 THEN [exc |-> "AssertionError", space |-> Val(0)]
  ELSE IF v.type # "dict" THEN [exc |-> "TypeError", space |-> Val(0)]
  ELSE IF v.keys[1] \notin HpAttrs THEN [exc |-> "AttributeError", space |-> Val(0)]
  ELSE IF ~v.space_v.mapping THEN [exc |-> "TypeError", space |-> Val(0)]
  ELSE [exc |-> "none", space |-> HpDist(v.keys[1], k, v.space_v.id)]

\* the claim as first stated: every dictionary with a single key d yields the
\* expression named d
C4_OutcomeAsClaimed(k, v) ==
  IF v.type = "list" THEN [exc |-> "none", space |-> HpChoice(k, v.list)]
  ELSE IF v.type = "dict" /\ Len(v.keys) # 1 THEN [exc |-> "AssertionError", space |-> Val(0)]
  ELSE IF v.type # "dict" THEN [exc |-> "TypeError", space |-> Val(0)]
  ELSE [exc |-> "none", space |-> HpDist(v.keys[1], k, v.space_v.id)]

\* the index of the first value of range r that yields no expression
C4_FirstBad(Outcome(_, _), r) ==
  LET bad == { i \in DOMAIN r : Outcome(r[i].k, r[i].v).exc # "none" }
  IN IF bad = {} THEN Len(r) + 1 ELSE CHOOSE i \in bad : \A j \in bad : i <= j

C4_Holds(Outcome(_, _)) ==
  pc \in {"gen_done", "gen_raised"} =>
    LET r == self.param_range
        f == C4_FirstBad(Outcome, r)
        space == paramHeap[self.param_space.dict]
    IN /\ pc = "gen_done" <=> f > Len(r)
       /\ \A i \in 1..(f - 1) :
            /\ r[i].k \in DOMAIN space
            /\ space[r[i].k] = Outcome(r[i].k, r[i].v).space
       /\ f <= Len(r) =>
            /\ exc = [type |-> Outcome(r[f].k, r[f].v).exc, at |-> "convert_to_hp"]
            /\ r[f].k \in DOMAIN space => space[r[f].k].kind = "val"

C5_RunReturnsOneResultPerTrial ==
  /\ cls = "Brute" => \A t \in DOMAIN trials : trials[t].runs <= 1
  /\ (cls = "Brute" /\ pc = "returned") =>
       /\ Len(experiment_data) = self.num_of_trials
       /\ \A i \in DOMAIN self.trial_array :
            /\ trials[self.trial_array[i]].runs = 1
            /\ ~trials[self.trial_array[i]].raised
            /\ Cardinality({ j \in DOMAIN experiment_data :
                               experiment_data[j].trial = self.trial_array[i] }) = 1
       /\ pool = "joined"
       /\ queue = <<>>
       /\ \A w \in DOMAIN workers : workers[w] = 0
       /\ \A i \in DOMAIN results : results[i].status = "ok"

C5_Witness ==
  /\ cls = "Brute"
  /\ pc = "returned"
  /\ Len(experiment_data) = 4

\* C6 (SpecO): once the run() of a trial has raised, the optimizer's run() does
\* not return and hands out no list of results, a failure inside fmin ends
\* run() at once, and no Trial object is run more than once.
C6_AnyTrialRaised == \E t \in DOMAIN trials : trials[t].raised

C6_NoRetryNoPartialResult ==
  /\ C6_AnyTrialRaised => (pc # "returned" /\ experiment_data = <<>>)
  /\ (C6_AnyTrialRaised /\ cls = "Hyperopt") =>
       (pc = "run_raised" /\ trials[Len(trials)].raised)
  /\ pc = "run_raised" => experiment_data = <<>>
  /\ \A t \in DOMAIN trials : trials[t].runs <= 1

C6_Witness ==
  /\ cls = "Hyperopt"
  /\ pc = "run_raised"
  /\ Len(hp_trials) = 1
  /\ Len(trials) = 2
  /\ trials[2].raised

\* C7 (Spec): a BruteHyperOptimizer given exactly experiment_spec, times and
\* line_search is constructed without raising: check_set_keys passes and, when
\* the grid has at least one configuration, the whole trial_array is built.
C7_RequiredKeysSuffice ==
  (pc # "start" /\ cls = "Brute" /\ kwargs.keys = BruteRequired) =>
     /\ exc.at # "check_set_keys"
     /\ self.num_of_trials >= 1 =>
          (pc # "init_raised" /\ Len(self.trial_array) = self.num_of_trials)

\* C8 (SpecO): in a HyperoptHyperOptimizer trial_num is the number of
\* hyperopt_run_trial calls so far, the k-th Trial has trial_num k and
\* num_of_trials max_evals, and when run() returns there are exactly max_evals
\* trials, with distinct trial numbers in 1..max_evals, and exactly max_evals
\* trial_data entries, one per evaluation, each with status ok.
C8_TrialNumbering ==
  (cls = "Hyperopt" /\ Constructed) =>
     /\ self.trial_num = Len(calls)
     /\ \A k \in DOMAIN trials :
          /\ trials[k].trial_num = k
          /\ trials[k].num_of_trials = self.max_evals
     /\ pc = "returned" =>
          /\ Len(trials) = self.max_evals
          /\ { trials[k].trial_num : k \in DOMAIN trials } = 1..self.max_evals
          /\ Len(experiment_data) = self.max_evals
          /\ \A i \in DOMAIN experiment_data :
               /\ experiment_data[i].trial = i
               /\ hp_trials[i].result.status = "ok"

C8_Witness ==
  /\ cls = "Hyperopt"
  /\ pc = "returned"
  /\ self.max_evals = 2
  /\ Len(experiment_data) = 2

\* C9 (SpecO): the experiment_spec the j-th Trial of a HyperoptHyperOptimizer
\* received has 'param' equal to the j-th param, also after later calls of
\* hyperopt_run_trial.
C9_TrialSpecKeepsParam ==
  cls = "Hyperopt" =>
    \A j \in DOMAIN trials :
       LET d == specHeap[trials[j].experiment_spec]
       IN /\ "param" \in d.keys
          /\ paramHeap[d.param] = paramHeap[calls[j]]

\* C10 (SpecO): a HyperoptHyperOptimizer never changes the caller's
\* experiment_spec nor its 'param' dictionary; once constructed,
\* common_experiment_spec is another dictionary, without 'param_range' and,
\* until the first trial, without 'param', and param_space is another
\* dictionary than default_param whose keys are those of default_param and of
\* param_range.
C10_State ==
  (cls = "Hyperopt" /\ Constructed) =>
     /\ {"param", "param_range"} \subseteq RawKeys
     /\ specHeap[RAW].param = self.default_param
     /\ specHeap[RAW].param_range = self.param_range
     /\ self.common_experiment_spec # kwargs.experiment_spec
     /\ "param_range" \notin specHeap[self.common_experiment_spec].keys
     /\ pc = "constructed" =>
          specHeap[self.common_experiment_spec].keys = RawKeys \ {"param", "param_range"}
     /\ self.param_space.dict # self.default_param
     /\ paramHeap[self.default_param] = DefaultParam
     /\ DOMAIN paramHeap[self.param_space.dict]
          = DOMAIN paramHeap[self.default_param]
            \cup { self.param_range[i].k : i \in DOMAIN self.param_range }

C10_Step ==
  (cls = "Hyperopt" /\ "experiment_spec" \in kwargs.keys) =>
     /\ specHeap'[RAW] = specHeap[RAW]
     /\ "param" \in RawKeys => paramHeap'[DP] = paramHeap[DP]

\* C10: the caller's experiment_spec and default param never change, and the
\* copies made from them are as C10_State says
C10_CallerSpecUnchanged == []C10_State /\ [][C10_Step]_vars

C10_Witness ==
  /\ cls = "Hyperopt"
  /\ pc = "returned"
  /\ Len(calls) = 2
  /\ DOMAIN paramHeap[SPACE] = {"lr", "gamma", "act"}

====
